---------------------------- MODULE Spec2Model ----------------------------
(***************************************************************************)
(* A model of src/src/account.rs: a tree of named accounts (Leaf / Branch) *)
(* and the four actions of Account::apply.                                  *)
(*                                                                         *)
(* Numbers.  The program computes in f64.  The model computes in exact     *)
(* rationals [n, d] (d > 0, lowest terms), so `amount / total_flex`,       *)
(* `per_flex * flex` and the comparisons with 0.01 and 0.0 are evaluated   *)
(* as written and not rounded.  A division by 0.0 (children.len() == 0)    *)
(* yields d = 0: +inf (n = 1), -inf (n = -1) or NaN (n = 0).               *)
(*                                                                         *)
(* Accounts.  An Account is a record [name, leaf, balance, max, children]; *)
(* `leaf` is the AccountType tag, balance/max are read only when leaf is   *)
(* TRUE and children only when it is FALSE.  A BranchEntry is              *)
(* [account, inflow], an Inflow is [kind, v] with kind "Fixed" or "Flex".  *)
(***************************************************************************)
EXTENDS Integers, Sequences, FiniteSets, TLC

VARIABLES
    root,     \* the tree `apply` is called on (self)
    pre,      \* the tree before the last action
    action,   \* the last action applied (its fields as given by the caller)
    result,   \* how the last apply ended: "Ok", an error kind, "hung" or "cut"
    steps     \* number of actions applied so far

vars == <<root, pre, action, result, steps>>

-----------------------------------------------------------------------------
(* Exact rational arithmetic standing for f64.                             *)

Abs(x) == IF x < 0 THEN -x ELSE x

Sgn(x) == IF x < 0 THEN -1 ELSE IF x > 0 THEN 1 ELSE 0

RECURSIVE GCD(_, _)
GCD(a, b) == IF b = 0 THEN a ELSE GCD(b, a % b)

Norm(n, d) ==
    IF d = 0 THEN [n |-> Sgn(n), d |-> 0]
    ELSE LET s == IF d < 0 THEN -1 ELSE 1
             g == GCD(Abs(n), Abs(d))
         IN  [n |-> (s * n) \div g, d |-> (s * d) \div g]

Q(n, d) == Norm(n, d)

Zero == Q(0, 1)

RAdd(a, b) == Norm(a.n * b.d + b.n * a.d, a.d * b.d)

RSub(a, b) == Norm(a.n * b.d - b.n * a.d, a.d * b.d)

RMul(a, b) == Norm(a.n * b.n, a.d * b.d)

RDiv(a, b) == Norm(a.n * b.d, a.d * b.n)

RLt(a, b) == a.n * b.d < b.n * a.d

RLe(a, b) == a.n * b.d <= b.n * a.d

RGt(a, b) == RLt(b, a)

RMin(a, b) == IF RLt(b, a) THEN b ELSE a

RECURSIVE RSum(_)
RSum(s) == IF Len(s) = 0 THEN Zero ELSE RAdd(s[1], RSum(Tail(s)))

\* The literal 0.01 of deposit's loop and fallback tests.
Tolerance == Q(1, 100)

-----------------------------------------------------------------------------
(* The data model.                                                         *)

Fixed(x) == [kind |-> "Fixed", v |-> x]

Flex(x) == [kind |-> "Flex", v |-> x]

Leaf(b, m) == [leaf |-> TRUE, balance |-> b, max |-> m, children |-> <<>>]

Branch(cs) == [leaf |-> FALSE, balance |-> Zero, max |-> Zero, children |-> cs]

Account(nm, data) ==
    [name |-> nm, leaf |-> data.leaf, balance |-> data.balance,
     max |-> data.max, children |-> data.children]

BranchEntry(acc, inf) == [account |-> acc, inflow |-> inf]

new_root == Account("root", Branch(<<>>))

-----------------------------------------------------------------------------
(* Queries.                                                                *)

RECURSIVE balance(_)
balance(self) ==
    IF self.leaf THEN self.balance
    ELSE RSum([i \in 1..Len(self.children) |-> balance(self.children[i].account)])

RECURSIVE max(_)
max(entry) ==
    IF entry.account.leaf THEN entry.account.max
    ELSE RSum([i \in 1..Len(entry.account.children) |-> max(entry.account.children[i])])

until_max(entry) == RSub(max(entry), balance(entry.account))

at_max(entry) == RLe(until_max(entry), Zero)

get_flex(entry) ==
    IF entry.inflow.kind = "Fixed" THEN Zero
    ELSE IF at_max(entry) THEN Zero
    ELSE entry.inflow.v

total_flex_of(children) == RSum([i \in 1..Len(children) |-> get_flex(children[i])])

-----------------------------------------------------------------------------
(* Account::deposit.  Every operator below returns the mutated value       *)
(* together with `run`, how the call ended:                                *)
(*   "returned"  it returned;                                              *)
(*   "hung"      it never returns: an iteration of the `while` loop of a   *)
(*               Branch left children and amount exactly as it found them, *)
(*               so every later iteration is the same one;                 *)
(*   "cut"       the loop was followed for MaxFlexIter iterations and was  *)
(*               still running: the model stops following it and says      *)
(*               nothing about the call.                                   *)

\* Iterations of one `while` loop the model follows.
MaxFlexIter == 12

Returned(acc) == [account |-> acc, run |-> "returned"]

NeverReturns(acc, why) == [account |-> acc, run |-> why]

RECURSIVE deposit(_, _), make_fixed_deposit(_, _), make_flex_deposit(_, _, _),
          fixed_fold(_, _, _), flex_fold(_, _, _, _), flex_loop(_, _, _),
          redistribute(_, _)

\* What make_fixed_deposit / make_flex_deposit leave behind: the entry with
\* its account as deposit left it, and the value returned.
entry_after(entry, left, d) ==
    [entry     |-> [entry EXCEPT !.account = d.account],
     available |-> left,
     run       |-> d.run]

\* self.account.deposit(take); available - take
deposit_take(entry, available, take) ==
    entry_after(entry, RSub(available, take), deposit(entry.account, take))

\* make_fixed_deposit with a fault: the take is not limited to what is
\* available.
make_fixed_deposit_ignoring_pool(entry, available) ==
    IF entry.inflow.kind = "Fixed"
    THEN deposit_take(entry, available, RMin(entry.inflow.v, until_max(entry)))
    ELSE [entry |-> entry, available |-> available, run |-> "returned"]

\* make_fixed_deposit with a fault: the inflow's kind is not looked at, so a
\* Flex child takes its weight as if it were a fixed amount.
make_fixed_deposit_any_kind(entry, available) ==
    deposit_take(entry, available,
                 RMin(RMin(entry.inflow.v, until_max(entry)), available))

\* BranchEntry::make_fixed_deposit
make_fixed_deposit(entry, available) ==
    IF entry.inflow.kind = "Fixed"
    THEN deposit_take(entry, available,
                      RMin(RMin(entry.inflow.v, until_max(entry)), available))
    ELSE [entry |-> entry, available |-> available, run |-> "returned"]

\* make_flex_deposit with a fault: what the child took is not subtracted from
\* what is returned.
make_flex_deposit_not_subtracting(entry, available, per_flex) ==
    IF entry.inflow.kind = "Flex"
    THEN [deposit_take(entry, available,
                       RMin(RMin(RMul(per_flex, entry.inflow.v), available),
                            until_max(entry)))
             EXCEPT !.available = available]
    ELSE [entry |-> entry, available |-> available, run |-> "returned"]

\* BranchEntry::make_flex_deposit
make_flex_deposit(entry, available, per_flex) ==
    IF entry.inflow.kind = "Flex"
    THEN deposit_take(entry, available,
                      RMin(RMin(RMul(per_flex, entry.inflow.v), available),
                           until_max(entry)))
    ELSE [entry |-> entry, available |-> available, run |-> "returned"]

fold_end(children, amount, run) ==
    [children |-> children, amount |-> amount, run |-> run]

\* One step of the fixed fold: child i has been visited with outcome r.
fixed_step(children, i, amount, r) ==
    IF r.run # "returned" THEN fold_end(children, amount, r.run)
    ELSE fixed_fold([children EXCEPT ![i] = r.entry], i + 1, r.available)

\* children.iter_mut().fold(amount, |amount, child| child.make_fixed_deposit(amount))
\* from child i on.
fixed_fold(children, i, amount) ==
    IF i > Len(children) THEN fold_end(children, amount, "returned")
    ELSE fixed_step(children, i, amount, make_fixed_deposit(children[i], amount))

\* One step of the flex fold: child i has been visited with outcome r.
flex_step(children, i, amount, per_flex, r) ==
    IF r.run # "returned" THEN fold_end(children, amount, r.run)
    ELSE flex_fold([children EXCEPT ![i] = r.entry], i + 1, r.available, per_flex)

\* children.iter_mut().fold(amount, |amount, child| child.make_flex_deposit(amount, per_flex))
\* from child i on.
flex_fold(children, i, amount, per_flex) ==
    IF i > Len(children) THEN fold_end(children, amount, "returned")
    ELSE flex_step(children, i, amount, per_flex,
                   make_flex_deposit(children[i], amount, per_flex))

loop_end(children, amount, iters, run) ==
    [children |-> children, amount |-> amount, run |-> run, iters |-> iters]

\* The end of one iteration of the `while` loop: r is what the fold left.
flex_iterated(children, amount, iters, r) ==
    IF r.run # "returned" THEN loop_end(children, amount, iters + 1, r.run)
    ELSE IF r.children = children /\ r.amount = amount
    THEN loop_end(children, amount, iters + 1, "hung")
    ELSE flex_loop(r.children, r.amount, iters + 1)

\* The test of the `while` loop and, when it passes, one iteration.
flex_test(children, amount, iters, total_flex) ==
    IF ~(total_flex # Zero /\ RGt(amount, Tolerance))
    THEN loop_end(children, amount, iters, "returned")
    ELSE IF iters >= MaxFlexIter THEN loop_end(children, amount, iters, "cut")
    ELSE flex_iterated(children, amount, iters,
                       flex_fold(children, 1, amount, RDiv(amount, total_flex)))

\* The `while total_flex != 0.0 && amount > 0.01` loop, `iters` iterations in.
flex_loop(children, amount, iters) ==
    flex_test(children, amount, iters, total_flex_of(children))

redistributed(children, d) ==
    [children |-> [i \in 1..Len(children) |->
                      [children[i] EXCEPT !.account = d[i].account]],
     run      |-> IF \E i \in 1..Len(children) : d[i].run = "hung" THEN "hung"
                  ELSE IF \E i \in 1..Len(children) : d[i].run = "cut" THEN "cut"
                  ELSE "returned"]

\* children.iter_mut().for_each(|child| child.account.deposit(remaining))
redistribute(children, remaining) ==
    redistributed(children,
        [i \in 1..Len(children) |-> deposit(children[i].account, remaining)])

returned_with(self, r) ==
    IF r.run # "returned" THEN NeverReturns(self, r.run)
    ELSE Returned([self EXCEPT !.children = r.children])

\* "Give up and redistribute": `children` and what is left after the loop.
give_up(self, children, remaining) ==
    IF RGt(remaining, Tolerance)
    THEN returned_with(self, redistribute(children, remaining))
    ELSE Returned([self EXCEPT !.children = children])

\* "Give up and redistribute" and on: `flex` is what the loop left.
after_flex(self, flex) ==
    IF flex.run # "returned" THEN NeverReturns(self, flex.run)
    ELSE give_up(self, flex.children,
                 RDiv(flex.amount, Q(Len(self.children), 1)))

\* "Make flex deposits" and on: `fixed` is what the fixed fold left.
after_fixed(self, fixed) ==
    IF fixed.run # "returned" THEN NeverReturns(self, fixed.run)
    ELSE after_flex(self, flex_loop(fixed.children, fixed.amount, 0))

\* Account::deposit
deposit(self, amount) ==
    IF self.leaf
    THEN Returned([self EXCEPT !.balance = RAdd(self.balance, amount)])
    ELSE after_fixed(self, fixed_fold(self.children, 1, amount))

-----------------------------------------------------------------------------
(* Lookup and the other mutators.  An Option is <<>> (None) or <<x>>       *)
(* (Some(x)); a reference into the tree is the path of child indices from  *)
(* the account the search started at.                                      *)

None == <<>>

Some(x) == <<x>>

RECURSIVE find_child(_, _), find_among(_, _, _)

\* Account::find_child: the path of the account returned, if any.
find_child(self, name) ==
    IF self.name = name THEN Some(<<>>)
    ELSE IF self.leaf THEN None
    ELSE find_among(self.children, 1, name)

\* The loop of find_child with a fault: the names of all remaining siblings
\* are compared before any of them is searched.
find_among_siblings_first(children, i, name) ==
    IF \E j \in i..Len(children) : children[j].account.name = name
    THEN Some(<<CHOOSE j \in i..Len(children) :
                   /\ children[j].account.name = name
                   /\ \A k \in i..(j - 1) : children[k].account.name # name>>)
    ELSE IF i > Len(children) THEN None
    ELSE LET found == find_child(children[i].account, name)
         IN  IF found # None THEN Some(<<i>> \o found[1])
             ELSE find_among(children, i + 1, name)

\* The `for child in children.iter_mut()` loop of find_child, from child i on.
find_among(children, i, name) ==
    IF i > Len(children) THEN None
    ELSE IF children[i].account.name = name THEN Some(<<i>>)
    ELSE LET found == find_child(children[i].account, name)
         IN  IF found # None THEN Some(<<i>> \o found[1])
             ELSE find_among(children, i + 1, name)

\* The account a path refers to.
RECURSIVE account_at(_, _)
account_at(self, path) ==
    IF path = <<>> THEN self
    ELSE account_at(self.children[Head(path)].account, Tail(path))

\* The tree after the account a path refers to has become `new`.
RECURSIVE with_account_at(_, _, _)
with_account_at(self, path, new) ==
    IF path = <<>> THEN new
    ELSE [self EXCEPT !.children[Head(path)].account =
              with_account_at(@, Tail(path), new)]

\* withdraw with a fault: a Leaf that holds less than the amount refuses.
withdraw_if_sufficient(self, amount) ==
    IF self.leaf /\ RLe(amount, self.balance)
    THEN [self |-> [self EXCEPT !.balance = RSub(self.balance, amount)],
          result |-> "Ok"]
    ELSE [self |-> self, result |-> "InvalidOperation"]

\* withdraw with a fault: a Branch is not refused.
withdraw_any_account(self, amount) ==
    [self |-> [self EXCEPT !.balance = RSub(self.balance, amount)], result |-> "Ok"]

\* Account::withdraw
withdraw(self, amount) ==
    IF self.leaf
    THEN [self |-> [self EXCEPT !.balance = RSub(self.balance, amount)],
          result |-> "Ok"]
    ELSE [self |-> self, result |-> "InvalidOperation"]

\* add_child with a fault: a Leaf is not refused.
add_child_to_any(self, account, inflow) ==
    [self |-> [self EXCEPT !.children = Append(@, BranchEntry(account, inflow))],
     result |-> "Ok"]

\* Account::add_child
add_child(self, account, inflow) ==
    IF self.leaf
    THEN [self |-> self, result |-> "InvalidTarget"]
    ELSE [self |-> [self EXCEPT !.children = Append(@, BranchEntry(account, inflow))],
          result |-> "Ok"]

-----------------------------------------------------------------------------
(* Account::apply.  The result is "Ok", the kind of the error returned     *)
(* ("NotFound" for the three `Could not find ...` messages,                *)
(* "InvalidOperation" for `Cannot withdraw from a branch node`,            *)
(* "InvalidTarget" for `Cannot add a child to a leaf account`), or how a   *)
(* deposit that did not return ended ("hung", "cut").                      *)

NewAction(name, inflow, parent, data) ==
    [type |-> "New", name |-> name, inflow |-> inflow, parent |-> parent,
     data |-> data]

WithdrawAction(account, amount) ==
    [type |-> "Withdraw", account |-> account, amount |-> amount]

DepositAction(account, amount) ==
    [type |-> "Deposit", account |-> account, amount |-> amount]

TransferAction(from, to, amount) ==
    [type |-> "Transfer", from |-> from, to |-> to, amount |-> amount]

failed(self, kind) == [self |-> self, result |-> kind]

\* The tree after the call on the account at `path` has returned r.
called_at(self, path, r) ==
    [self |-> with_account_at(self, path, r.self), result |-> r.result]

\* apply's New arm with a fault: the new entry is put in front of the
\* parent's children.
new_under_in_front(self, a, parent) ==
    IF parent = None THEN failed(self, "NotFound")
    ELSE IF account_at(self, parent[1]).leaf THEN failed(self, "InvalidTarget")
    ELSE [self   |-> with_account_at(self, parent[1],
                        [account_at(self, parent[1]) EXCEPT !.children =
                            <<BranchEntry(Account(a.name, a.data), a.inflow)>> \o @]),
          result |-> "Ok"]

\* apply, New arm, once the parent has been looked up
new_under(self, a, parent) ==
    IF parent = None THEN failed(self, "NotFound")
    ELSE called_at(self, parent[1],
                   add_child(account_at(self, parent[1]),
                             Account(a.name, a.data), a.inflow))

apply_new(self, a) == new_under(self, a, find_child(self, a.parent))

withdraw_from(self, a, parent) ==
    IF parent = None THEN failed(self, "NotFound")
    ELSE called_at(self, parent[1],
                   withdraw(account_at(self, parent[1]), a.amount))

apply_withdraw(self, a) == withdraw_from(self, a, find_child(self, a.account))

deposited_at(self, path, d) ==
    IF d.run # "returned" THEN failed(self, d.run)
    ELSE [self |-> with_account_at(self, path, d.account), result |-> "Ok"]

\* apply's Deposit arm with a fault: the account found is not used, the
\* deposit is made on self.
deposit_to_self(self, a, account) ==
    IF account = None THEN failed(self, "NotFound")
    ELSE deposited_at(self, <<>>, deposit(self, a.amount))

\* apply, Deposit arm, once the account has been resolved
deposit_to(self, a, account) ==
    IF account = None THEN failed(self, "NotFound")
    ELSE deposited_at(self, account[1],
                      deposit(account_at(self, account[1]), a.amount))

apply_deposit(self, a) ==
    deposit_to(self, a, IF a.account = None THEN Some(<<>>)
                        ELSE find_child(self, a.account[1]))

\* apply's Transfer arm with a fault: the Deposit step is left out.
then_no_deposit(a, w) == w

\* apply, Transfer arm, once the Withdraw step has returned w
then_deposit(a, w) ==
    IF w.result # "Ok" THEN w
    ELSE apply_deposit(w.self, DepositAction(a.to, a.amount))

\* apply's Transfer arm with a fault: a Transfer that fails gives the tree
\* back as it was before the Withdraw.
restored(self, d) == IF d.result # "Ok" THEN failed(self, d.result) ELSE d

apply_transfer_all_or_nothing(self, a) ==
    restored(self,
             then_deposit(a, apply_withdraw(self, WithdrawAction(a.from, a.amount))))

\* apply's Transfer arm with a fault: the Deposit step is made whatever the
\* Withdraw step returned.
apply_transfer_deposit_anyway(self, a) ==
    apply_deposit(apply_withdraw(self, WithdrawAction(a.from, a.amount)).self,
                  DepositAction(a.to, a.amount))

\* apply, Transfer arm
apply_transfer(self, a) ==
    then_deposit(a, apply_withdraw(self, WithdrawAction(a.from, a.amount)))

apply(self, a) ==
    CASE a.type = "New"      -> apply_new(self, a)
      [] a.type = "Withdraw" -> apply_withdraw(self, a)
      [] a.type = "Deposit"  -> apply_deposit(self, a)
      [] a.type = "Transfer" -> apply_transfer(self, a)

-----------------------------------------------------------------------------
(* The state machine: a caller holding the tree made by new_root applies   *)
(* one action after another.  A call that does not return ends the run.    *)

RECURSIVE size(_)
size(self) ==
    IF self.leaf THEN 1
    ELSE 1 + LET n == Len(self.children)
                 sz == [i \in 1..n |-> size(self.children[i].account)]
                 sum[i \in 0..n] == IF i = 0 THEN 0 ELSE sum[i - 1] + sz[i]
             IN  sum[n]

Init ==
    /\ root = new_root
    /\ pre = new_root
    /\ action = [type |-> "None"]
    /\ result = "Ok"
    /\ steps = 0

Applied(r) ==
    /\ root' = r.self
    /\ result' = r.result

\* The caller applies another action: the last call returned and fewer than
\* `limit` actions have been applied.
Running(limit) == steps < limit /\ result \notin {"hung", "cut"}

Step(a) ==
    /\ Applied(apply(root, a))
    /\ pre' = root
    /\ action' = a
    /\ steps' = steps + 1

\* `cap` bounds the accounts in the tree besides the root.
New(limit, cap, names, inflows, parents, datas) ==
    /\ Running(limit)
    /\ \E name \in names, inflow \in inflows, parent \in parents, data \in datas :
          /\ size(root) - 1 + size(Account(name, data)) <= cap
          /\ Step(NewAction(name, inflow, parent, data))

Withdraw(limit, accounts, amounts) ==
    /\ Running(limit)
    /\ \E account \in accounts, amount \in amounts :
          Step(WithdrawAction(account, amount))

Deposit(limit, targets, amounts) ==
    /\ Running(limit)
    /\ \E account \in targets, amount \in amounts :
          Step(DepositAction(account, amount))

Transfer(limit, froms, tos, amounts) ==
    /\ Running(limit)
    /\ \E from \in froms, to \in tos, amount \in amounts :
          Step(TransferAction(from, to, amount))

Whole(k) == Q(k, 1)

-----------------------------------------------------------------------------
(* Spec: the action engine.  Names may repeat, parents and targets may be  *)
(* missing ("zz" is never created), accounts nest.                         *)

EngineNames == {"a", "b"}

EngineParents == {"root", "a", "zz"}

EngineInflows == {Fixed(Whole(1)), Flex(Whole(1))}

EngineDatas == {Leaf(Zero, Whole(2)), Branch(<<>>)}

EngineAccounts == {"root", "a", "b", "zz"}

EngineTargets == {None, Some("a"), Some("zz")}

EngineAmounts == {Whole(1), Whole(3)}

\* Actions applied in one run of Spec.
MaxSteps == 4

\* Accounts besides the root in Spec.
MaxAccounts == 3

Next ==
    \/ New(MaxSteps, MaxAccounts, EngineNames, EngineInflows, EngineParents, EngineDatas)
    \/ Withdraw(MaxSteps, EngineAccounts, {Whole(1)})
    \/ Deposit(MaxSteps, EngineTargets, EngineAmounts)
    \/ Transfer(MaxSteps, EngineAccounts, EngineTargets, {Whole(1)})

Spec == Init /\ [][Next]_vars

-----------------------------------------------------------------------------
(* SpecDist: the deposit distribution.  Accounts are created under the     *)
(* root, named in creation order; a created account is a Leaf, an empty    *)
(* Branch or a Branch that comes with two leaves.  The amounts are those   *)
(* of the documented examples (Fixed(5), Flex(1), Flex(3); deposits of 3   *)
(* and 40) and one at the 0.01 threshold.                                  *)

ChildNames == <<"a", "b", "c", "d", "e", "f">>

NextName == {ChildNames[Len(root.children) + 1]}

Household ==
    Branch(<<BranchEntry(Account("p", Leaf(Zero, Whole(2))), Fixed(Whole(5))),
             BranchEntry(Account("q", Leaf(Zero, Whole(100))), Flex(Whole(1)))>>)

DistInflows == {Fixed(Whole(5)), Flex(Whole(1)), Flex(Whole(3))}

DistDatas == {Leaf(Zero, Whole(2)), Leaf(Zero, Whole(100)), Branch(<<>>), Household}

DistAmounts == {Q(1, 100), Whole(3), Whole(40)}

\* Actions applied in one run of SpecDist.
MaxDistSteps == 4

\* Accounts besides the root in SpecDist.
MaxDistAccounts == 3

NextDist ==
    \/ New(MaxDistSteps, MaxDistAccounts, NextName, DistInflows, {"root"}, DistDatas)
    \/ Deposit(MaxDistSteps, {None, Some("a")}, DistAmounts)

SpecDist == Init /\ [][NextDist]_vars

-----------------------------------------------------------------------------
(* SpecFixed: the Fixed pass.  Accounts are created under the root, named  *)
(* in creation order, with fixed amounts 5 and 2 and capacities 3 and 100; *)
(* a deposit of 7 runs out between two Fixed(5) children and is used up    *)
(* exactly by a Fixed(5) and a Fixed(2) child.                             *)

FixedInflows == {Fixed(Whole(5)), Fixed(Whole(2)), Flex(Whole(1))}

FixedDatas == {Leaf(Zero, Whole(3)), Leaf(Zero, Whole(100)), Household}

FixedAmounts == {Whole(1), Whole(7)}

\* Actions applied in one run of SpecFixed.
MaxFixedSteps == 4

\* Accounts besides the root in SpecFixed.
MaxFixedAccounts == 3

NextFixed ==
    \/ New(MaxFixedSteps, MaxFixedAccounts, NextName, FixedInflows, {"root"},
           FixedDatas)
    \/ Deposit(MaxFixedSteps, {None, Some("a")}, FixedAmounts)

SpecFixed == Init /\ [][NextFixed]_vars

-----------------------------------------------------------------------------
(* SpecNested: budgets within budgets.  Accounts are created under the     *)
(* root, named in creation order: a Leaf, a Branch with one Flex leaf, or  *)
(* a Branch with two Fixed(0) leaves; deposits go to the root or to one of *)
(* the first two accounts.  Every max is 1/16 and the amounts are 1/64 and *)
(* 5/64: binary fractions, with which f64 computes exactly, as the model   *)
(* does; 1/64 is above the 0.01 threshold and half of it is below.         *)

Small == Q(1, 16)

Savings ==
    Branch(<<BranchEntry(Account("p", Leaf(Zero, Small)), Flex(Whole(1)))>>)

Bills ==
    Branch(<<BranchEntry(Account("p", Leaf(Zero, Small)), Fixed(Zero)),
             BranchEntry(Account("q", Leaf(Zero, Small)), Fixed(Zero))>>)

NestedInflows == {Fixed(Zero), Flex(Whole(1))}

NestedDatas == {Leaf(Zero, Small), Savings, Bills}

NestedAmounts == {Q(1, 64), Q(5, 64)}

\* Actions applied in one run of SpecNested.
MaxNestedSteps == 4

\* Accounts besides the root in SpecNested.
MaxNestedAccounts == 5

NextNested ==
    \/ New(MaxNestedSteps, MaxNestedAccounts, NextName, NestedInflows, {"root"},
           NestedDatas)
    \/ Deposit(MaxNestedSteps, {None, Some("a"), Some("b")}, NestedAmounts)

SpecNested == Init /\ [][NextNested]_vars

-----------------------------------------------------------------------------
(* What the properties below speak of: the last action, the account it     *)
(* resolved to, and that account before and after.                         *)

RAbs(a) == IF RLt(a, Zero) THEN RSub(Zero, a) ELSE a

\* a and b differ by at most the 0.01 tolerance.
Within(a, b) == RLe(RAbs(RSub(a, b)), Tolerance)

\* Every leaf of the subtree has balance <= max.
RECURSIVE LeavesWithinMax(_)
LeavesWithinMax(acc) ==
    IF acc.leaf THEN RLe(acc.balance, acc.max)
    ELSE \A i \in 1..Len(acc.children) : LeavesWithinMax(acc.children[i].account)

\* Sum over the leaves of the subtree of max - balance.
RECURSIVE Headroom(_)
Headroom(acc) ==
    IF acc.leaf THEN RSub(acc.max, acc.balance)
    ELSE RSum([i \in 1..Len(acc.children) |-> Headroom(acc.children[i].account)])

\* The account a Deposit is run on, as a path into `pre`.
DepositPath ==
    IF action.account = None THEN Some(<<>>) ELSE find_child(pre, action.account[1])

IsDeposit == action.type = "Deposit" /\ DepositPath # None

Before == account_at(pre, DepositPath[1])

After == account_at(root, DepositPath[1])

Gain == RSub(balance(After), balance(Before))

\* The last action was a Deposit of amount >= 0 into a Branch of a tree whose
\* leaves were all within max, and the Branch had headroom for the amount.
RoomyBranchDeposit ==
    /\ IsDeposit
    /\ ~Before.leaf
    /\ LeavesWithinMax(pre)
    /\ RLe(Zero, action.amount)
    /\ RLe(action.amount, Headroom(Before))

\* C1: a deposit of amount >= 0 into a Branch whose descendant leaves are all
\* within max and have total headroom >= amount raises the Branch's balance
\* by the amount, within the 0.01 tolerance.
C1_BalanceConserved ==
    (RoomyBranchDeposit /\ result = "Ok") => Within(Gain, action.amount)

\* C2: after a deposit of amount >= 0 into a Branch whose descendant leaves
\* are all within max and have total headroom >= amount, no child of the
\* Branch and no descendant leaf is above its max.
C2_CapacityRespected ==
    (RoomyBranchDeposit /\ result = "Ok") =>
        /\ \A i \in 1..Len(After.children) : RLe(Zero, until_max(After.children[i]))
        /\ LeavesWithinMax(After)

\* C3: a deposit of amount > 0 into any account (Leaf, Branch, empty Branch)
\* returns normally and raises the account's balance by the amount, within
\* the 0.01 tolerance.
C3_WholeAmountPlaced ==
    (IsDeposit /\ RLt(Zero, action.amount)) =>
        /\ result = "Ok"
        /\ Within(Gain, action.amount)

\* C4: every deposit returns: no call of apply is left running in the
\* `while total_flex != 0.0 && amount > 0.01` loop.
C4_DepositTerminates == result # "hung"

-----------------------------------------------------------------------------
(* The passes of a deposit into a Branch, replayed on the Branch as it was *)
(* before the action.                                                      *)

Kids == Before.children

IsBranchDeposit == IsDeposit /\ ~Before.leaf /\ result = "Ok"

IsFixedKid(i) == Kids[i].inflow.kind = "Fixed"

IsFlexKid(i) == Kids[i].inflow.kind = "Flex"

\* What child i gained over the whole deposit.
KidGain(i) == RSub(balance(After.children[i].account), balance(Kids[i].account))

AfterFixedPass == fixed_fold(Kids, 1, action.amount)

\* The pool the Fixed pass leaves.
Pool == AfterFixedPass.amount

AfterFlexPass == flex_loop(AfterFixedPass.children, Pool, 0)

\* Sum, in stored order from child i on, of what the Fixed children take of
\* `pool`: min(fixed_amount, until_max, remaining pool) each.
RECURSIVE FixedTaken(_, _, _)
FixedTaken(children, i, pool) ==
    IF i > Len(children) THEN Zero
    ELSE IF children[i].inflow.kind = "Fixed"
    THEN LET take == RMin(RMin(children[i].inflow.v, until_max(children[i])), pool)
         IN  RAdd(take, FixedTaken(children, i + 1, RSub(pool, take)))
    ELSE FixedTaken(children, i + 1, pool)

KidsWithinMax == \A i \in 1..Len(Kids) : RLe(Zero, until_max(Kids[i]))

\* The documented example: a Fixed(5) and a Flex(1) leaf, both empty, with
\* ample capacity, and a deposit of 3.
FixedFirstExample ==
    /\ IsBranchDeposit
    /\ action.amount = Whole(3)
    /\ Len(Kids) = 2
    /\ Kids[1].inflow = Fixed(Whole(5)) /\ Kids[2].inflow = Flex(Whole(1))
    /\ \A i \in 1..2 : /\ Kids[i].account.leaf
                       /\ Kids[i].account.balance = Zero
                       /\ Kids[i].account.max = Whole(100)

\* C5: in a deposit of amount >= 0 into a Branch whose children are all at
\* or below max, the Fixed pass leaves every Flex child as it was, and when
\* the amount does not exceed what the Fixed children take in that pass the
\* whole deposit leaves every Flex child as it was; Fixed(5) and Flex(1)
\* leaves at 0 with ample capacity end at 3 and 0 after a deposit of 3.
C5_FixedBeforeFlex ==
    /\ (IsBranchDeposit /\ KidsWithinMax /\ RLe(Zero, action.amount)) =>
          /\ \A i \in 1..Len(Kids) :
                IsFlexKid(i) => AfterFixedPass.children[i] = Kids[i]
          /\ RLe(action.amount, FixedTaken(Kids, 1, action.amount)) =>
                \A i \in 1..Len(Kids) :
                    IsFlexKid(i) => After.children[i] = Kids[i]
    /\ FixedFirstExample =>
          /\ After.children[1].account.balance = Whole(3)
          /\ After.children[2].account.balance = Zero

\* A deposit that the Fixed children took whole while a Flex child stood by.
C5_Witness ==
    /\ IsBranchDeposit /\ KidsWithinMax
    /\ RLt(Zero, action.amount)
    /\ RLe(action.amount, FixedTaken(Kids, 1, action.amount))
    /\ \E i \in 1..Len(Kids) : IsFlexKid(i) /\ ~at_max(Kids[i])
    /\ \E i \in 1..Len(Kids) : IsFixedKid(i) /\ RLt(Zero, KidGain(i))

\* Sum of the weights of the Flex children.
FlexWeights ==
    RSum([i \in 1..Len(Kids) |-> IF IsFlexKid(i) THEN Kids[i].inflow.v ELSE Zero])

\* Child i's proportional share of the pool.
Share(i) == RDiv(RMul(Pool, Kids[i].inflow.v), FlexWeights)

\* What child i is handed in one traversal of the Flex children that starts
\* with `pool` and `per_flex`.
Handed(i, pool, per_flex) ==
    LET before == flex_fold(SubSeq(AfterFixedPass.children, 1, i - 1), 1, pool,
                            per_flex).amount
    IN  RSub(before,
             make_flex_deposit(AfterFixedPass.children[i], before, per_flex).available)

\* Every Flex child has headroom for its proportional share of the pool.
RoomForShares ==
    /\ IsBranchDeposit
    /\ RLe(Zero, Pool)
    /\ RLt(Zero, FlexWeights)
    /\ \A i \in 1..Len(Kids) : IsFlexKid(i) => RLe(Share(i), until_max(Kids[i]))

\* The Flex children are handed their shares in one iteration, the Flex
\* leaves end up with them, and nothing is left of the pool.
SharesHandedOut ==
    /\ \A i \in 1..Len(Kids) :
          IsFlexKid(i) =>
             /\ Handed(i, Pool, RDiv(Pool, total_flex_of(AfterFixedPass.children)))
                   = Share(i)
             /\ Kids[i].account.leaf => KidGain(i) = Share(i)
    /\ AfterFlexPass.amount = Zero
    /\ AfterFlexPass.iters <= 1

\* C6 as stated: whenever every Flex child has headroom for its share, each
\* is handed exactly pool * weight / (sum of Flex weights) and the pool is
\* exhausted.
C6_ProportionalShares == RoomForShares => SharesHandedOut

\* No Flex child has a negative weight.
WeightsNonNegative ==
    \A i \in 1..Len(Kids) : IsFlexKid(i) => RLe(Zero, Kids[i].inflow.v)

\* C6, amended: the same when the pool left by the Fixed pass is above 0.01
\* and no Flex weight is negative.
C6_ProportionalSharesAboveTolerance ==
    (RoomForShares /\ WeightsNonNegative /\ RGt(Pool, Tolerance)) =>
        SharesHandedOut

\* The documented example: Flex leaves with weights 1 and 3 (in either
\* order) and ample capacity get 10 and 30 of a deposit of 40.
C6_Witness ==
    /\ RoomForShares /\ WeightsNonNegative /\ RGt(Pool, Tolerance)
    /\ action.amount = Whole(40)
    /\ Len(Kids) = 2
    /\ \E i, j \in 1..2 :
          /\ Kids[i].inflow = Flex(Whole(1)) /\ Kids[j].inflow = Flex(Whole(3))
          /\ Kids[i].account.leaf /\ Kids[j].account.leaf
          /\ KidGain(i) = Whole(10) /\ KidGain(j) = Whole(30)

\* C7: in a deposit into a Branch, a Flex child that is at capacity when the
\* Flex pass starts (until_max <= 0) counts 0 in total_flex and has the same
\* balance when the Flex pass ends.
C7_FullFlexChildUntouched ==
    IsBranchDeposit =>
        \A i \in 1..Len(Kids) :
            (IsFlexKid(i) /\ at_max(AfterFixedPass.children[i])) =>
                /\ get_flex(AfterFixedPass.children[i]) = Zero
                /\ balance(AfterFlexPass.children[i].account)
                      = balance(AfterFixedPass.children[i].account)

\* C8: a deposit into a Branch whose n >= 1 children are all at capacity,
\* with amount / n > 0.01, raises every child's balance by amount / n.
C8_EvenOverflow ==
    (/\ IsBranchDeposit
     /\ Len(Kids) >= 1
     /\ \A i \in 1..Len(Kids) : at_max(Kids[i])
     /\ RGt(RDiv(action.amount, Whole(Len(Kids))), Tolerance)) =>
        \A i \in 1..Len(Kids) :
            KidGain(i) = RDiv(action.amount, Whole(Len(Kids)))

-----------------------------------------------------------------------------
(* Withdraw and Transfer.                                                  *)

\* The account a name resolved to in the tree before the action.
Resolves(name) == find_child(pre, name) # None

Resolved(name) == account_at(pre, find_child(pre, name)[1])

\* `pre` with `amount` taken off the balance of the account `name` resolves to.
Debited(name, amount) ==
    with_account_at(pre, find_child(pre, name)[1],
        [Resolved(name) EXCEPT !.balance = RSub(Resolved(name).balance, amount)])

\* The last action was a Transfer from a Leaf to a name no account carries.
TransferToNowhere ==
    /\ action.type = "Transfer"
    /\ Resolves(action.from) /\ Resolved(action.from).leaf
    /\ action.to # None /\ ~Resolves(action.to[1])

\* C9: a Transfer from an existing Leaf to a name no account carries returns
\* NotFound, leaves that Leaf's balance reduced by the amount and every other
\* account as it was, so that the root's balance drops by the amount.
C9_TransferPartialFailure ==
    TransferToNowhere =>
        /\ result = "NotFound"
        /\ root = Debited(action.from, action.amount)
        /\ balance(root) = RSub(balance(pre), action.amount)

\* Such a Transfer has been applied to a tree holding money and another Leaf.
C9_Witness ==
    /\ TransferToNowhere
    /\ result = "NotFound"
    /\ RLt(Zero, balance(pre))
    /\ RLt(balance(root), balance(pre))
    /\ size(pre) >= 3

\* C10: a Withdraw naming a Branch returns InvalidOperation, a Withdraw naming
\* no account returns NotFound, and both leave the tree as it was.
C10_WithdrawFailsCleanly ==
    action.type = "Withdraw" =>
        /\ (Resolves(action.account) /\ ~Resolved(action.account).leaf) =>
              (result = "InvalidOperation" /\ root = pre)
        /\ ~Resolves(action.account) => (result = "NotFound" /\ root = pre)

\* A Withdraw naming a Branch other than the root, in a tree holding money.
C10_Witness ==
    /\ action.type = "Withdraw"
    /\ action.account # "root"
    /\ Resolves(action.account) /\ ~Resolved(action.account).leaf
    /\ RLt(Zero, balance(Resolved(action.account)))
    /\ result = "InvalidOperation"

-----------------------------------------------------------------------------
(* Lookup.                                                                 *)

\* The paths of the accounts of a tree in depth-first pre-order: the account
\* itself, then each child's subtree in stored order.
RECURSIVE PreOrder(_)
PreOrder(acc) ==
    LET n == Len(acc.children)
        sub[i \in 0..n] ==
            IF i = 0 THEN <<>>
            ELSE LET below == PreOrder(acc.children[i].account)
                 IN  sub[i - 1] \o [k \in 1..Len(below) |-> <<i>> \o below[k]]
    IN  <<(<<>>)>> \o sub[n]

\* Positions in the listing `order` of the accounts of `acc` called `name`.
NamedIn(order, acc, name) ==
    {k \in 1..Len(order) : account_at(acc, order[k]).name = name}

\* The first path of `order` among the positions `at`, if any.
FirstOf(order, at) ==
    IF at = {} THEN None
    ELSE Some(order[CHOOSE k \in at : \A j \in at : k <= j])

\* Positions in the pre-order of `acc` of the accounts called `name`.
Named(acc, name) == NamedIn(PreOrder(acc), acc, name)

FirstIn(order, acc, name) == FirstOf(order, NamedIn(order, acc, name))

\* The first account called `name` in the pre-order of `acc`, if any.
FirstNamed(acc, name) == FirstIn(PreOrder(acc), acc, name)

\* C11: for every name, find_child on the root returns the first account of
\* that name in depth-first pre-order (stored sibling order, the root
\* first), and none when no account has the name; the answer is a function
\* of the tree and the name alone.
C11_FirstPreOrderMatch ==
    \A name \in EngineAccounts : find_child(root, name) = FirstNamed(root, name)

\* A name carried by two accounts, the first of them in pre-order lying
\* deeper than the second, and a name carried by none.
C11_Witness ==
    /\ \E name \in EngineAccounts :
          /\ Cardinality(Named(root, name)) >= 2
          /\ \E j \in Named(root, name) :
                Len(PreOrder(root)[j]) < Len(find_child(root, name)[1])
    /\ \E name \in EngineAccounts : find_child(root, name) = None

-----------------------------------------------------------------------------
(* New.                                                                    *)

\* C12: a New whose parent names no account returns NotFound, a New whose
\* parent resolves to a Leaf returns InvalidTarget, and both leave the tree
\* as it was.
C12_NewFailsCleanly ==
    action.type = "New" =>
        /\ ~Resolves(action.parent) => (result = "NotFound" /\ root = pre)
        /\ (Resolves(action.parent) /\ Resolved(action.parent).leaf) =>
              (result = "InvalidTarget" /\ root = pre)

\* A New under a Leaf that holds money has been refused.
C12_Witness ==
    /\ action.type = "New"
    /\ Resolves(action.parent) /\ Resolved(action.parent).leaf
    /\ RLt(Zero, Resolved(action.parent).balance)
    /\ result = "InvalidTarget"

-----------------------------------------------------------------------------
(* The shape of the tree.                                                  *)

\* An account with every balance of its subtree blanked: what is left is
\* names, kinds, maxes, inflows and the order of children.
RECURSIVE Shape(_)
Shape(acc) ==
    [acc EXCEPT
        !.balance = Zero,
        !.children = [i \in 1..Len(acc.children) |->
                         [acc.children[i] EXCEPT !.account = Shape(@)]]]

\* `pre` with one more entry at the end of the children of the account at
\* `path`.
WithLastChild(path, entry) ==
    with_account_at(pre, path,
        [account_at(pre, path) EXCEPT !.children = @ \o <<entry>>])

\* C13: the root is a Branch named "root"; an action other than a New that
\* succeeded leaves names, kinds, maxes, inflows and child order as they
\* were and changes balances at most; a New that succeeded adds exactly its
\* entry at the end of the children of the parent it resolved to and changes
\* nothing else.
C13_AppendOnly ==
    /\ root.name = "root" /\ ~root.leaf
    /\ (action.type = "New" /\ result = "Ok") =>
          root = WithLastChild(find_child(pre, action.parent)[1],
                               BranchEntry(Account(action.name, action.data),
                                           action.inflow))
    /\ ~(action.type = "New" /\ result = "Ok") => Shape(root) = Shape(pre)
    /\ (action.type = "New" /\ result # "Ok") => root = pre

\* A New has put a second child under a parent other than the root, in a
\* tree holding money.
C13_Witness ==
    /\ action.type = "New" /\ result = "Ok"
    /\ action.parent # "root"
    /\ Len(Resolved(action.parent).children) >= 1
    /\ Len(account_at(root, find_child(pre, action.parent)[1]).children) >= 2
    /\ RLt(Zero, balance(pre))

-----------------------------------------------------------------------------
(* Withdraw on a Leaf.                                                     *)

\* C14: a Withdraw naming a Leaf returns Ok and leaves the tree as it was
\* but for that Leaf's balance, which is lower by the amount, whatever the
\* Leaf held.
C14_WithdrawUnconditional ==
    (/\ action.type = "Withdraw"
     /\ Resolves(action.account) /\ Resolved(action.account).leaf) =>
        /\ result = "Ok"
        /\ root = Debited(action.account, action.amount)

\* A Withdraw has left a Leaf with a negative balance, in a tree with
\* another account that holds money.
C14_Witness ==
    /\ action.type = "Withdraw" /\ result = "Ok"
    /\ Resolves(action.account) /\ Resolved(action.account).leaf
    /\ RLt(Resolved(action.account).balance, action.amount)
    /\ RLt(balance(account_at(root, find_child(pre, action.account)[1])), Zero)
    /\ RLt(Resolved(action.account).balance, balance(pre))

-----------------------------------------------------------------------------
(* The target of a Deposit.                                                *)

\* C15: a Deposit without a target runs deposit on the root; a Deposit with
\* a target runs it on the first pre-order match of the name and the tree
\* outside that account stays as it was; a Leaf target ends with exactly its
\* balance raised by the amount, whatever its max; a target that names no
\* account gives NotFound and the tree stays as it was.
C15_DepositTarget ==
    action.type = "Deposit" =>
        /\ (action.account # None /\ ~Resolves(action.account[1])) =>
              (result = "NotFound" /\ root = pre)
        /\ IsDeposit =>
              /\ result # "NotFound"
              /\ DepositPath = (IF action.account = None THEN Some(<<>>)
                                ELSE FirstNamed(pre, action.account[1]))
              /\ result = "Ok" =>
                    /\ root = with_account_at(pre, DepositPath[1], After)
                    /\ After = deposit(Before, action.amount).account
                    /\ Before.leaf =>
                          After = [Before EXCEPT !.balance =
                                      RAdd(Before.balance, action.amount)]

\* A Deposit naming a Leaf has pushed it above its max while another account
\* holds money.
C15_Witness ==
    /\ IsDeposit /\ result = "Ok"
    /\ action.account # None
    /\ Before.leaf
    /\ RLt(After.max, After.balance)
    /\ RLt(Before.balance, balance(pre))

-----------------------------------------------------------------------------
(* The iterations of the Flex loop.                                        *)

\* The Flex children that are under capacity.
UnderCapacity(children) ==
    {i \in 1..Len(children) :
        children[i].inflow.kind = "Flex" /\ ~at_max(children[i])}

\* One iteration of the loop on `children` with `amount` in the pool.
Iteration(children, amount) ==
    flex_fold(children, 1, amount, RDiv(amount, total_flex_of(children)))

\* From iteration k on, every iteration of the loop that ends with more than
\* 0.01 in the pool ends with fewer Flex children under capacity than it
\* started with, and no iteration starts after `most` of them.
RECURSIVE Progresses(_, _, _, _)
Progresses(children, amount, k, most) ==
    IF ~(total_flex_of(children) # Zero /\ RGt(amount, Tolerance)) THEN TRUE
    ELSE IF k >= most THEN FALSE
    ELSE LET r == Iteration(children, amount)
         IN  \/ r.run # "returned"
             \/ /\ RGt(r.amount, Tolerance) =>
                      /\ UnderCapacity(r.children) \subseteq UnderCapacity(children)
                      /\ UnderCapacity(r.children) # UnderCapacity(children)
                /\ Progresses(r.children, r.amount, k + 1, most)

\* C16: in a deposit into a Branch, every iteration of the Flex loop that
\* ends with the pool above 0.01 has brought at least one more Flex child to
\* capacity and none back under it, and the loop runs at most as many
\* iterations as the Branch has children.
C16_FlexLoopProgress ==
    (IsDeposit /\ ~Before.leaf /\ AfterFixedPass.run = "returned") =>
        Progresses(AfterFixedPass.children, Pool, 0, Len(Kids))

-----------------------------------------------------------------------------
(* The Fixed pass, child by child.                                         *)

\* The pool when the Fixed pass comes to child i: the amount less what the
\* Fixed children before i took.
PoolBefore(i) ==
    RSub(action.amount, FixedTaken(SubSeq(Kids, 1, i - 1), 1, action.amount))

\* min(fixed_amount, until_max) of Fixed child i.
FullTake(i) == RMin(Kids[i].inflow.v, until_max(Kids[i]))

\* min(fixed_amount, until_max, pool remaining) of Fixed child i.
TakeOf(i) == RMin(FullTake(i), PoolBefore(i))

\* What child i gained in the Fixed pass.
FixedPassGain(i) ==
    RSub(balance(AfterFixedPass.children[i].account), balance(Kids[i].account))

\* The documented example: two Fixed(5) leaves, both empty, with ample
\* capacity, and a deposit of 7.
FixedOrderExample ==
    /\ IsBranchDeposit
    /\ action.amount = Whole(7)
    /\ Len(Kids) = 2
    /\ \A i \in 1..2 : /\ Kids[i].inflow = Fixed(Whole(5))
                       /\ Kids[i].account = Account(ChildNames[i], Leaf(Zero, Whole(100)))

\* C17: in a deposit into a Branch whose children are all at or below max,
\* the Fixed pass deposits min(fixed_amount, until_max, pool left by the
\* earlier Fixed children) into each Fixed child in stored order (a Fixed
\* Leaf gains just that), so a later Fixed child gets something only when
\* every earlier one got its full min(fixed_amount, until_max); when the pass
\* leaves a pool of 0 the children end the deposit as the pass left them;
\* Fixed(5), Fixed(5) with ample capacity and a deposit of 7 end at 5 and 2.
C17_FixedPassInOrder ==
    /\ (IsBranchDeposit /\ KidsWithinMax) =>
          /\ \A i \in 1..Len(Kids) :
                IsFixedKid(i) =>
                   /\ AfterFixedPass.children[i].account
                         = deposit(Kids[i].account, TakeOf(i)).account
                   /\ Kids[i].account.leaf => FixedPassGain(i) = TakeOf(i)
                   /\ \A j \in 1..(i - 1) :
                         (IsFixedKid(j) /\ RLt(Zero, TakeOf(i))) =>
                            TakeOf(j) = FullTake(j)
          /\ Pool = RSub(action.amount, FixedTaken(Kids, 1, action.amount))
          /\ Pool = Zero => After.children = AfterFixedPass.children
    /\ FixedOrderExample =>
          /\ After.children[1].account.balance = Whole(5)
          /\ After.children[2].account.balance = Whole(2)

\* The documented example has been run: the first Fixed(5) leaf holds 5 and
\* the second the 2 that were left.
C17_Witness ==
    /\ FixedOrderExample /\ KidsWithinMax
    /\ KidGain(1) = Whole(5) /\ KidGain(2) = Whole(2)
    /\ Pool = Zero

-----------------------------------------------------------------------------
(* Deposits and the balances of leaves.                                    *)

\* The paths of the leaves of `pre`.
LeafPaths ==
    {PreOrder(pre)[k] : k \in {j \in 1..Len(PreOrder(pre)) :
                                  account_at(pre, PreOrder(pre)[j]).leaf}}

\* C18: a Deposit of amount >= 0 that returns leaves no Leaf with a lower
\* balance than it had.
C18_DepositNeverTakes ==
    (action.type = "Deposit" /\ result = "Ok" /\ RLe(Zero, action.amount)) =>
        \A p \in LeafPaths :
            RLe(account_at(pre, p).balance, account_at(root, p).balance)

-----------------------------------------------------------------------------
(* Transfer.                                                               *)

\* The last action was a Transfer between two different Leaf accounts.
TransferBetweenLeaves ==
    /\ action.type = "Transfer"
    /\ Resolves(action.from) /\ Resolved(action.from).leaf
    /\ action.to # None
    /\ Resolves(action.to[1]) /\ Resolved(action.to[1]).leaf
    /\ find_child(pre, action.from) # find_child(pre, action.to[1])

\* `pre` with the amount moved from the one Leaf to the other.
Moved ==
    with_account_at(Debited(action.from, action.amount),
        find_child(pre, action.to[1])[1],
        [Resolved(action.to[1]) EXCEPT !.balance = RAdd(@, action.amount)])

\* `pre` after a Withdraw and then a Deposit applied as two actions.
InTwoActions ==
    apply(apply(pre, WithdrawAction(action.from, action.amount)).self,
          DepositAction(action.to, action.amount))

\* C19: a Transfer between two different Leaf accounts returns Ok, lowers
\* the one by the amount, raises the other by the amount whatever its max,
\* leaves every other account and so the root's balance as it was, and ends
\* as a Withdraw followed by a Deposit as separate actions ends.
C19_TransferConserves ==
    TransferBetweenLeaves =>
        /\ result = "Ok"
        /\ root = Moved
        /\ balance(root) = balance(pre)
        /\ InTwoActions = [self |-> root, result |-> result]

\* Such a Transfer has pushed its target above max and left its source
\* negative.
C19_Witness ==
    /\ TransferBetweenLeaves /\ result = "Ok"
    /\ RLt(Resolved(action.to[1]).max,
           account_at(root, find_child(pre, action.to[1])[1]).balance)
    /\ RLt(account_at(root, find_child(pre, action.from)[1]).balance, Zero)

\* The last action returned an error.
Failed == result \in {"NotFound", "InvalidOperation", "InvalidTarget"}

\* C20: a Transfer whose `from` names no account returns NotFound, one whose
\* `from` resolves to a Branch returns InvalidOperation (the errors of the
\* Withdraw step, whatever `to` is), and both leave the tree as it was; an
\* action that returned an error and changed the tree is a Transfer whose
\* `from` resolved to a Leaf.
C20_TransferStopsAtWithdraw ==
    /\ action.type = "Transfer" =>
          /\ ~Resolves(action.from) => (result = "NotFound" /\ root = pre)
          /\ (Resolves(action.from) /\ ~Resolved(action.from).leaf) =>
                (result = "InvalidOperation" /\ root = pre)
    /\ (Failed /\ root # pre) =>
          /\ action.type = "Transfer"
          /\ Resolves(action.from) /\ Resolved(action.from).leaf

\* A Transfer from a Branch to an existing Leaf has been refused.
C20_Witness ==
    /\ action.type = "Transfer"
    /\ Resolves(action.from) /\ ~Resolved(action.from).leaf
    /\ action.to # None
    /\ Resolves(action.to[1]) /\ Resolved(action.to[1]).leaf
    /\ result = "InvalidOperation"

=============================================================================
